---- MODULE Spec2Model ----
(***************************************************************************)
(* PadelTech: the local video store of the mobile client                   *)
(* (src/src/services/videoStorageService.ts) and the analysis history and  *)
(* user statistics of the backend (src/backend/src/routes/analysis.js,     *)
(* src/backend/src/models/Analysis.js).                                    *)
(*                                                                         *)
(* The video store is a set of async static methods.  JavaScript runs one  *)
(* of them at a time and switches only at an await, so every action below  *)
(* is one I/O call of a method together with the synchronous code that     *)
(* follows it up to the next await.  A call occupies a task slot; its      *)
(* position is the I/O call it is waiting for.                             *)
(***************************************************************************)
EXTENDS Integers, Naturals, Sequences, FiniteSets, TLC

\* ------------------------------------------------------------------ bounds
MaxSaves == 2        \* saveVideo calls started in one behaviour
MaxOverlaps == 1     \* calls started while another call is in progress
MaxEvents == 2       \* events outside the store's control in one behaviour:
                     \* the clock seen to advance, an I/O call failing,
                     \* a file removed behind the store's back
MaxOverlapEvents == 1  \* the same, in the behaviours where calls overlap
MaxAnalyses == 4     \* analyses created (POST /api/analysis) in one behaviour
MaxChanges == 1      \* analyses updated or deleted (PUT, DELETE /api/analysis/:id) in one behaviour
MaxScores == 4       \* length of the score list handed to the trend functions

\* --------------------------------------------------------------- constants
MsPerDay == 86400000 \* 24 * 60 * 60 * 1000
\* the default maxAgeMs of CameraValidationUtils.cleanupOldVideos
CameraMaxAgeMs == 7 * MsPerDay

Tasks == {1, 2}
ShotTypes == {"derecha", "reves"}
AgeChoices == {0, 1}
TickSteps == {1, MsPerDay}

VARIABLES
    platform,   \* Platform.OS: "web" or "native"
    now,        \* the last value Date.now() returned
    index,      \* AsyncStorage[VIDEOS_INDEX_KEY], parsed: a sequence of StoredVideo
    files,      \* the uris at which a file exists
    tasks,      \* the calls in progress and the outcome of the finished ones
    conc,       \* how many calls the caller lets be in progress at once
    noverlaps,  \* calls started while another was in progress, so far
    nsaves,     \* saveVideo calls started so far
    nevents,    \* events outside the store's control so far
    deleted,    \* the id a successful deleteVideo removed, until a call other than deleteVideo starts
    dirMtime,   \* modificationTime of VIDEOS_DIRECTORY in ms, -1 while it does not exist
    \* the backend
    analyses,   \* the Analysis collection, in order of createdAt
    stats,      \* User.stats of every user
    created,    \* the outcome of the last POST /api/analysis
    nposts,     \* successful POST /api/analysis so far, per user
    nchanges,   \* successful PUT and DELETE /api/analysis/:id so far
    response,   \* the body of the last GET .../stats response, none after another request
    \* the trend functions
    scoreList,  \* the list of scores, oldest first, they are applied to
    trend       \* what each of them returned, "" before it was called

storeVars == <<platform, now, index, files, tasks, conc, noverlaps, nsaves, nevents, deleted,
              dirMtime>>
analysisVars == <<analyses, stats, created, nposts, nchanges, response>>
trendVars == <<scoreList, trend>>
vars == <<storeVars, analysisVars, trendVars>>

\* ------------------------------------------------------------- data shapes
NoUri == [kind |-> "none", st |-> "", id |-> -1]
SourceUri == [kind |-> "source", st |-> "", id |-> 0]

\* `${VIDEOS_DIRECTORY}${shotType}_${videoId}.mp4`
destinationUri(shotType, videoId) == [kind |-> "store", st |-> shotType, id |-> videoId]

StoredVideo(id, uri, shotType, timestamp) ==
    [id |-> id, uri |-> uri, shotType |-> shotType, timestamp |-> timestamp]

NoVideo == StoredVideo(-1, NoUri, "", -1)


IdleTask ==
    [op |-> "none", pc |-> "idle", indel |-> FALSE,
     video |-> NoVideo,          \* saveVideo: storedVideo / mockVideo
     wr |-> <<>>,                \* the list about to be handed to updateVideosIndex
     gvideos |-> <<>>, gi |-> 0, gvalid |-> <<>>,   \* getAllVideos: videos, loop position, validVideos
     did |-> -1, dtarget |-> NoVideo,               \* deleteVideo: videoId, videoToDelete
     ctodo |-> <<>>, ccount |-> 0,                  \* cleanupOldVideos: videosToDelete still to do, its length
     age |-> 0,                                     \* cleanupOldVideos(maxAgeDays)
     res |-> "none", retList |-> <<>>, retNum |-> 0,
     \* history of the call, read by the properties only
     idx0 |-> <<>>,              \* the persisted index when the call started
     gfiles0 |-> {},             \* the files that existed when getAllVideos was last entered
     io |-> "",                  \* the I/O call of this call that failed, if one did
     dgone |-> FALSE,            \* deleteVideo started on an indexed entry whose file was gone
     derr |-> -1,                \* cleanupOldVideos: the id whose deleteVideo threw
     ctargets |-> <<>>,          \* cleanupOldVideos: videosToDelete as computed
     again |-> FALSE,            \* deleteVideo started on the id the last successful deleteVideo removed;
                                 \* cleanupOldVideos started right after a cleanupOldVideos(maxAgeDays)
                                 \* with the same maxAgeDays
     pio |-> "",                 \* that earlier cleanupOldVideos: its failed I/O call, if one did,
     now0 |-> -1,                \* and the clock reading it left
     dfound |-> NoVideo,         \* deleteVideo: videoToDelete as found
     psaved |-> NoVideo,         \* getAllVideos started right after a saveVideo returned: the
     pfirst |-> FALSE]           \* StoredVideo it returned, whether it had started on an empty index

\* ---------------------------------------------------------- pure helpers
RECURSIVE FilterNotId(_, _)
\* videos.filter(v => v.id !== videoId)
FilterNotId(videos, videoId) ==
    IF videos = <<>> THEN <<>>
    ELSE IF Head(videos).id # videoId
         THEN <<Head(videos)>> \o FilterNotId(Tail(videos), videoId)
         ELSE FilterNotId(Tail(videos), videoId)

RECURSIVE FilterShotType(_, _)
\* allVideos.filter(video => video.shotType === shotType)
FilterShotType(videos, shotType) ==
    IF videos = <<>> THEN <<>>
    ELSE IF Head(videos).shotType = shotType
         THEN <<Head(videos)>> \o FilterShotType(Tail(videos), shotType)
         ELSE FilterShotType(Tail(videos), shotType)

RECURSIVE FilterOlder(_, _, _)
\* videos.filter(video => (now - video.timestamp) > maxAgeMs)
FilterOlder(videos, nowMs, maxAgeMs) ==
    IF videos = <<>> THEN <<>>
    ELSE IF (nowMs - Head(videos).timestamp) > maxAgeMs
         THEN <<Head(videos)>> \o FilterOlder(Tail(videos), nowMs, maxAgeMs)
         ELSE FilterOlder(Tail(videos), nowMs, maxAgeMs)

\* videos.find(v => v.id === videoId), NoVideo for undefined
FindById(videos, videoId) ==
    IF \E i \in 1..Len(videos) : videos[i].id = videoId
    THEN videos[CHOOSE i \in 1..Len(videos) :
                    /\ videos[i].id = videoId
                    /\ \A j \in 1..(i - 1) : videos[j].id # videoId]
    ELSE NoVideo

RECURSIVE InsertDesc(_, _)
InsertDesc(v, s) ==
    IF s = <<>> THEN <<v>>
    ELSE IF Head(s).timestamp >= v.timestamp
         THEN <<Head(s)>> \o InsertDesc(v, Tail(s))
         ELSE <<v>> \o s

RECURSIVE SortAcc(_, _)
SortAcc(s, acc) ==
    IF s = <<>> THEN acc ELSE SortAcc(Tail(s), InsertDesc(Head(s), acc))

\* validVideos.sort((a, b) => b.timestamp - a.timestamp): stable, newest first
SortDesc(s) == SortAcc(s, <<>>)

\* fileInfo.exists of FileSystem.getInfoAsync(uri)
FileExists(uri, fs) == uri \in fs

Range(s) == {s[i] : i \in 1..Len(s)}

\* ------------------------------------------------- control flow of a call
\* The caller awaiting getAllVideos: deleteVideo runs inside cleanupOldVideos.
Caller(T) ==
    IF T.op = "cleanup" THEN (IF T.indel THEN "delete" ELSE "cleanup") ELSE T.op

\* The call settles: its locals are dropped, its outcome stays readable.
Done(T, r) ==
    [T EXCEPT !.pc = "done", !.res = r, !.indel = FALSE, !.wr = <<>>,
              !.gvideos = <<>>, !.gi = 0, !.gvalid = <<>>,
              !.dtarget = NoVideo, !.ctodo = <<>>]

\* An exception reaches the catch block of the public method:
\* saveVideo, deleteVideo rethrow; cleanupOldVideos returns 0.
Throw(T) ==
    IF T.op = "cleanup"
    THEN Done([T EXCEPT !.retNum = 0, !.derr = IF T.indel THEN T.did ELSE -1], "ok")
    ELSE Done(T, "threw")

\* await this.getAllVideos()
EnterGav(T, fs) ==
    [T EXCEPT !.pc = "gav_get", !.gvideos = <<>>, !.gi = 0, !.gvalid = <<>>,
              !.gfiles0 = fs]

\* deleteVideo after getAllVideos returned videos
deleteVideo_found(T, videos, web) ==
    LET videoToDelete == FindById(videos, T.did) IN
    IF videoToDelete = NoVideo
    THEN Throw(T)
    ELSE [T EXCEPT !.pc = IF web THEN "del_set" ELSE "del_info",
                   !.dtarget = videoToDelete,
                   !.dfound = videoToDelete,
                   !.wr = FilterNotId(videos, T.did),
                   !.gvideos = <<>>, !.gi = 0, !.gvalid = <<>>]

\* cleanupOldVideos after getAllVideos returned videos
cleanupOldVideos_filter(T, videos, nowMs, fs) ==
    LET videosToDelete == FilterOlder(videos, nowMs, T.age * MsPerDay) IN
    IF videosToDelete = <<>>
    THEN Done([T EXCEPT !.retNum = 0], "ok")
    ELSE EnterGav([T EXCEPT !.ctodo = videosToDelete,
                            !.ctargets = videosToDelete,
                            !.ccount = Len(videosToDelete),
                            !.did = Head(videosToDelete).id,
                            !.indel = TRUE], fs)

\* deleteVideo returned normally: to its caller, or to the loop of cleanupOldVideos
deleteVideo_returned(T, fs) ==
    IF T.op = "delete"
    THEN Done(T, "ok")
    ELSE LET rest == Tail(T.ctodo) IN
         IF rest = <<>>
         THEN Done([T EXCEPT !.retNum = T.ccount], "ok")
         ELSE EnterGav([T EXCEPT !.ctodo = rest, !.did = Head(rest).id,
                                 !.dtarget = NoVideo, !.wr = <<>>], fs)

\* getAllVideos returned ret: the synchronous code of its caller up to the next await
Continue(T, ret, nowMs, web, fs) ==
    CASE Caller(T) = "save" ->
            [T EXCEPT !.pc = "add_set", !.wr = Append(ret, T.video),
                      !.gvideos = <<>>, !.gi = 0, !.gvalid = <<>>]
      [] Caller(T) = "list" -> Done([T EXCEPT !.retList = ret], "ok")
      [] Caller(T) = "delete" -> deleteVideo_found(T, ret, web)
      [] Caller(T) = "cleanup" -> cleanupOldVideos_filter(T, ret, nowMs, fs)

\* ------------------------------------------------------------- scheduling
Free(t) == tasks[t].pc \in {"idle", "done"}
Running == {t \in Tasks : ~Free(t)}

CanStart(t) ==
    /\ Free(t)
    /\ \A u \in Tasks : u < t => ~Free(u)
    /\ Cardinality(Running) < conc
    /\ Running # {} => noverlaps < MaxOverlaps

Fresh(op) == [IdleTask EXCEPT !.op = op, !.idx0 = index]

\* The values the next Date.now() may return: the clock stands or has advanced.
EventLimit == IF conc = 1 THEN MaxEvents ELSE MaxOverlapEvents
MayHappen == nevents < EventLimit

Readings == {now} \cup {now + d : d \in IF MayHappen THEN TickSteps ELSE {}}

\* the files in VIDEOS_DIRECTORY
StoreFiles(fs) == {u \in fs : u.kind = "store"}

\* One step of task t: its new state, the index and the files it leaves,
\* whether an I/O call failed, and the clock if the step read it.
StepAt(t, T2, idx2, fs2, f, now2) ==
    /\ tasks' = [u \in Tasks |->
                   IF u = t THEN T2
                   ELSE IF Free(t) /\ Free(u) THEN IdleTask  \* a new call: old outcomes are gone
                   ELSE tasks[u]]
    /\ index' = idx2
    /\ files' = fs2
    /\ now' = now2
    /\ nevents' = nevents + f + (IF now2 = now THEN 0 ELSE 1)
    /\ deleted' = IF T2.op = "delete"
                  THEN (IF T2.pc = "done" THEN (IF T2.res = "ok" THEN T2.did ELSE -1)
                        ELSE deleted)
                  ELSE -1
    \* a file created in or deleted from the directory sets its modificationTime;
    \* initialize() at the start of saveVideo creates the directory if there is none
    /\ dirMtime' = IF StoreFiles(fs2) # StoreFiles(files) THEN now2
                   ELSE IF platform = "native" /\ T2.op = "save" /\ dirMtime = -1 THEN now2
                   ELSE dirMtime
    /\ UNCHANGED <<platform, conc>>
    /\ UNCHANGED analysisVars
    /\ UNCHANGED trendVars

Step(t, T2, idx2, fs2, f) == StepAt(t, T2, idx2, fs2, f, now)

BeginAt(t, T2, fs2, now2) ==
    /\ CanStart(t)
    /\ nsaves' = IF T2.op = "save" THEN nsaves + 1 ELSE nsaves
    /\ noverlaps' = IF Running # {} THEN noverlaps + 1 ELSE noverlaps
    /\ StepAt(t, T2, index, fs2, 0, now2)

Begin(t, T2, fs2) == BeginAt(t, T2, fs2, now)

\* getAllVideos returns to its caller, which reads the clock if it is cleanupOldVideos
Return(t, ret, idx2) ==
    \E nowMs \in IF Caller(tasks[t]) = "cleanup" THEN Readings ELSE {now} :
        StepAt(t, Continue(tasks[t], ret, nowMs, platform = "web", files),
               idx2, files, 0, nowMs)

\* The catch block of getAllVideos: an I/O call of it failed and it returns [].
\* (cleanupOldVideos then finds nothing to delete whatever the clock says.)
getAllVideos_failed(t, call) ==
    StepAt(t, Continue([tasks[t] EXCEPT !.io = call], <<>>, now, platform = "web", files),
           index, files, 1, now)

\* An I/O call made by saveVideo or deleteVideo itself failed.
Failed(t, call) == StepAt(t, Throw([tasks[t] EXCEPT !.io = call]), index, files, 1, now)

MayFail == MayHappen
isWeb == platform = "web"

\* ----------------------------------------------------------------- saveVideo
\* saveVideo with the rejection of copyAsync swallowed: it goes on to the index.
copyAsync_ignored(T, fs) == EnterGav([T EXCEPT !.io = "copyAsync"], fs)

\* The catch block of saveVideo after copyAsync rejected.
copyAsync_failed(T, fs) == Throw([T EXCEPT !.io = "copyAsync"])

saveVideo(t) ==
    \* metadata.timestamp is the caller's Date.now(), videoId a later one
    \E shotType \in ShotTypes, videoId \in Readings :
        LET timestamp == now IN
        /\ nsaves < MaxSaves
        /\ IF isWeb
           THEN BeginAt(t, EnterGav([Fresh("save") EXCEPT
                             !.video = StoredVideo(videoId, SourceUri, shotType, timestamp)],
                             files \cup {SourceUri}),
                        files \cup {SourceUri}, videoId)
           ELSE BeginAt(t, [Fresh("save") EXCEPT !.pc = "copy",
                             !.video = StoredVideo(videoId, destinationUri(shotType, videoId),
                                                   shotType, timestamp)],
                        files, videoId)

saveVideo_copyAsync(t) ==
    LET T == tasks[t] IN
    /\ T.pc = "copy"
    /\ UNCHANGED <<nsaves, noverlaps>>
    /\ \/ Step(t, EnterGav(T, files \cup {T.video.uri}), index,
               files \cup {T.video.uri}, 0)
       \/ /\ MayFail
          /\ Step(t, copyAsync_failed(T, files), index, files, 1)

\* addVideoToIndex returning without the write of the index.
addVideoToIndex_skipped(t) ==
    /\ tasks[t].pc = "add_set"
    /\ UNCHANGED <<nsaves, noverlaps>>
    /\ Step(t, Done(tasks[t], "ok"), index, files, 0)

\* addVideoToIndex: await this.updateVideosIndex(videos)
addVideoToIndex_updateVideosIndex(t) ==
    LET T == tasks[t] IN
    /\ T.pc = "add_set"
    /\ UNCHANGED <<nsaves, noverlaps>>
    /\ \/ Step(t, Done(T, "ok"), T.wr, files, 0)
       \/ /\ MayFail
          /\ Failed(t, "setItem")

\* -------------------------------------------------------------- getAllVideos
getAllVideos(t) ==
    LET before == {u \in Tasks : /\ tasks[u].op = "save" /\ tasks[u].pc = "done"
                                  /\ tasks[u].res = "ok"}
        after == Running = {} /\ before # {}
        prev == tasks[CHOOSE u \in Tasks : after => u \in before]
    IN
    Begin(t, EnterGav([Fresh("list") EXCEPT
                          !.psaved = IF after THEN prev.video ELSE NoVideo,
                          !.pfirst = after /\ prev.idx0 = <<>>],
                      files),
          files)

\* getVideosByShotType and getStorageStats await getAllVideos and compute
\* their result from the list it returned.
getVideosByShotType(allVideos, shotType) == FilterShotType(allVideos, shotType)

getStorageStats(videos) == [totalVideos |-> Len(videos)]

\* await AsyncStorage.getItem(VIDEOS_INDEX_KEY), JSON.parse, the web return
getAllVideos_getItem(t) ==
    LET T == tasks[t] IN
    /\ T.pc = "gav_get"
    /\ UNCHANGED <<nsaves, noverlaps>>
    /\ \/ IF isWeb \/ index = <<>>
          THEN Return(t, index, index)
          ELSE Step(t, [T EXCEPT !.pc = "gav_check", !.gvideos = index, !.gi = 1,
                                 !.gvalid = <<>>], index, files, 0)
       \/ /\ MayFail
          /\ getAllVideos_failed(t, "getItem")

\* The loop of getAllVideos without its existence check.
keepAlways(validVideos, video, fs) == Append(validVideos, video)

\* validVideos after the existence check of one video
keepIfExists(validVideos, video, fs) ==
    IF FileExists(video.uri, fs) THEN Append(validVideos, video) ELSE validVideos

\* one turn of the loop: await FileSystem.getInfoAsync(video.uri)
getAllVideos_getInfoAsync(t) ==
    LET T == tasks[t]
        valid == keepIfExists(T.gvalid, T.gvideos[T.gi], files)
    IN
    /\ T.pc = "gav_check"
    /\ UNCHANGED <<nsaves, noverlaps>>
    /\ \/ IF T.gi < Len(T.gvideos)
          THEN Step(t, [T EXCEPT !.gi = T.gi + 1, !.gvalid = valid], index, files, 0)
          ELSE IF Len(valid) < Len(T.gvideos)
               THEN Step(t, [T EXCEPT !.pc = "gav_set", !.gvalid = valid],
                         index, files, 0)
               ELSE Return(t, SortDesc(valid), index)
       \/ /\ MayFail
          /\ getAllVideos_failed(t, "getInfoAsync")

\* getAllVideos returning validVideos without writing them to the index.
getAllVideos_indexKept(t) ==
    /\ tasks[t].pc = "gav_set"
    /\ UNCHANGED <<nsaves, noverlaps>>
    /\ Return(t, SortDesc(tasks[t].gvalid), index)

\* if (indexChanged) await this.updateVideosIndex(validVideos)
getAllVideos_updateVideosIndex(t) ==
    LET T == tasks[t] IN
    /\ T.pc = "gav_set"
    /\ UNCHANGED <<nsaves, noverlaps>>
    /\ \/ Return(t, SortDesc(T.gvalid), T.gvalid)
       \/ /\ MayFail
          /\ getAllVideos_failed(t, "setItem")

\* --------------------------------------------------------------- deleteVideo
deleteVideo(t) ==
    \E videoId \in {v.id : v \in Range(index)} \cup {deleted} :
        /\ videoId >= 0
        /\ Begin(t, EnterGav([Fresh("delete") EXCEPT
                       !.did = videoId,
                       !.again = (videoId = deleted),
                       !.dgone = \E v \in Range(index) :
                                     v.id = videoId /\ ~FileExists(v.uri, files)],
                       files),
                 files)

\* await FileSystem.getInfoAsync(videoToDelete.uri)
deleteVideo_getInfoAsync(t) ==
    LET T == tasks[t] IN
    /\ T.pc = "del_info"
    /\ UNCHANGED <<nsaves, noverlaps>>
    /\ \/ Step(t, [T EXCEPT !.pc = IF FileExists(T.dtarget.uri, files)
                                   THEN "del_file" ELSE "del_set"],
               index, files, 0)
       \/ /\ MayFail
          /\ Failed(t, "getInfoAsync")

\* deleteVideo with the rejection of deleteAsync swallowed: it goes on to the index.
deleteAsync_ignored(T) == [T EXCEPT !.io = "deleteAsync", !.pc = "del_set"]

\* The catch block of deleteVideo after deleteAsync rejected.
deleteAsync_failed(T) == Throw([T EXCEPT !.io = "deleteAsync"])

\* await FileSystem.deleteAsync(videoToDelete.uri)
deleteVideo_deleteAsync(t) ==
    LET T == tasks[t] IN
    /\ T.pc = "del_file"
    /\ UNCHANGED <<nsaves, noverlaps>>
    /\ \/ /\ FileExists(T.dtarget.uri, files)
          /\ Step(t, [T EXCEPT !.pc = "del_set"], index, files \ {T.dtarget.uri}, 0)
       \/ /\ ~FileExists(T.dtarget.uri, files)   \* gone since getInfoAsync: deleteAsync rejects
          /\ Step(t, deleteAsync_failed(T), index, files, 0)
       \/ /\ MayFail
          /\ Step(t, deleteAsync_failed(T), index, files, 1)

\* await this.updateVideosIndex(updatedVideos)
deleteVideo_updateVideosIndex(t) ==
    LET T == tasks[t] IN
    /\ T.pc = "del_set"
    /\ UNCHANGED <<nsaves, noverlaps>>
    /\ \/ Step(t, deleteVideo_returned(T, files), T.wr, files, 0)
       \/ /\ MayFail
          /\ Failed(t, "setItem")

\* ---------------------------------------------------------- cleanupOldVideos
cleanupOldVideos(t) ==
    \E maxAgeDays \in AgeChoices :
        LET before == {u \in Tasks : /\ tasks[u].op = "cleanup" /\ tasks[u].pc = "done"
                                      /\ tasks[u].age = maxAgeDays}
            again == Running = {} /\ before # {}
            prev == tasks[CHOOSE u \in Tasks : again => u \in before]
        IN
        Begin(t, EnterGav([Fresh("cleanup") EXCEPT
                              !.age = maxAgeDays,
                              !.again = again,
                              !.pio = IF again THEN prev.io ELSE "",
                              !.now0 = IF again THEN now ELSE -1],
                          files),
              files)

\* --------------------------------------------------------------- environment
\* A file disappears without the store being asked: the system or the user
\* clears it, the recorder's temporary file is collected.
externalRemove ==
    \E u \in files :
        /\ MayHappen
        /\ files' = files \ {u}
        /\ dirMtime' = IF u.kind = "store" THEN now ELSE dirMtime
        /\ nevents' = nevents + 1
        /\ UNCHANGED <<platform, now, index, tasks, conc, noverlaps, nsaves, deleted>>
        /\ UNCHANGED analysisVars
        /\ UNCHANGED trendVars

\* CameraValidationUtils.cleanupOldVideos(FileSystem.documentDirectory), which
\* startRecording launches without awaiting it, here between the calls of the store.
\* It deletes every item of the document directory that is older than maxAgeMs and
\* whose name includes 'padeltech_'.  The one such item is the directory
\* padeltech_videos: deleteAsync removes it with all the files in it.  An item
\* whose modificationTime is 0 is passed over.
CameraValidationUtils_cleanupOldVideos ==
    \E nowMs \in Readings \cup {now + d : d \in IF MayHappen THEN {CameraMaxAgeMs + 1} ELSE {}} :
        /\ Running = {}
        /\ now' = nowMs
        /\ nevents' = nevents + (IF nowMs = now THEN 0 ELSE 1)
        /\ IF platform # "web" /\ dirMtime > 0 /\ (nowMs - dirMtime) > CameraMaxAgeMs
           THEN /\ files' = files \ StoreFiles(files)
                /\ dirMtime' = -1
           ELSE UNCHANGED <<files, dirMtime>>
        /\ UNCHANGED <<platform, index, tasks, conc, noverlaps, nsaves, deleted>>
        /\ UNCHANGED analysisVars
        /\ UNCHANGED trendVars

\* =================================================================== backend
Users == {"u1", "u2"}
Scores == {0, 70, 81}            \* results.overallScore values that pass validation

\* a JavaScript number: a finite value in hundredths, Infinity or NaN
Num(h) == [kind |-> "num", h |-> h]
Infinity == [kind |-> "Infinity", h |-> 0]
NaN == [kind |-> "NaN", h |-> 0]

NoComparison == [present |-> FALSE, previousScore |-> 0, improvement |-> Num(0), trend |-> ""]

Analysis(userId, shotType, overallScore, comparison) ==
    [userId |-> userId, shotType |-> shotType,
     results |-> [overallScore |-> overallScore], comparison |-> comparison]

RECURSIVE GCD(_, _)
GCD(a, b) == IF b = 0 THEN a ELSE GCD(b, a % b)

\* a rational in lowest terms, for stats.averageScore
Rat(n, d) == LET g == GCD(n, d) IN [n |-> n \div g, d |-> d \div g]

InitialStats == [totalAnalyses |-> 0, averageScore |-> Rat(0, 1), bestScore |-> 0]

RECURSIVE Matching(_, _, _)
\* Analysis.find({ userId, shotType }), oldest first
Matching(docs, userId, shotType) ==
    IF docs = <<>> THEN <<>>
    ELSE IF Head(docs).userId = userId /\ Head(docs).shotType = shotType
         THEN <<Head(docs)>> \o Matching(Tail(docs), userId, shotType)
         ELSE Matching(Tail(docs), userId, shotType)

Reverse(s) == [i \in 1..Len(s) |-> s[Len(s) + 1 - i]]

\* .slice(-3)
Last3(s) == IF Len(s) <= 3 THEN s ELSE SubSeq(s, Len(s) - 2, Len(s))

\* the same query sorted by createdAt ascending
previousAnalyses_oldestFirst(docs, userId, shotType) ==
    LET oldestFirst == Matching(docs, userId, shotType) IN
    IF Len(oldestFirst) <= 3 THEN oldestFirst ELSE SubSeq(oldestFirst, 1, 3)

\* Analysis.find({ userId, shotType }).sort({ createdAt: -1 }).limit(3)
previousAnalyses(docs, userId, shotType) ==
    LET newestFirst == Reverse(Matching(docs, userId, shotType)) IN
    IF Len(newestFirst) <= 3 THEN newestFirst ELSE SubSeq(newestFirst, 1, 3)

\* analysisSchema.methods.calculateTrend
calculateTrend(previous) ==
    IF Len(previous) = 0 THEN "stable"
    ELSE LET recentScores == [i \in 1..Len(Last3(previous)) |->
                                  Last3(previous)[i].results.overallScore]
         IN IF Len(recentScores) < 3 THEN "stable"
            ELSE LET firstScore == recentScores[1]
                     lastScore == recentScores[Len(recentScores)]
                 IN IF lastScore > firstScore + 5 THEN "improving"
                    ELSE IF lastScore < firstScore - 5 THEN "declining"
                    ELSE "stable"

\* Math.round(x * 100) / 100 for x = ((score - previousScore) / previousScore) * 100,
\* in hundredths; Math.round rounds a half up
improvement(score, previousScore) ==
    IF previousScore = 0
    THEN (IF score = 0 THEN NaN ELSE Infinity)
    ELSE Num(((score - previousScore) * 20000 + previousScore) \div (2 * previousScore))

\* the comparison POST /api/analysis attaches
comparison(docs, userId, shotType, score) ==
    LET previous == previousAnalyses(docs, userId, shotType) IN
    IF Len(previous) > 0
    THEN [present |-> TRUE,
          previousScore |-> previous[1].results.overallScore,
          improvement |-> improvement(score, previous[1].results.overallScore),
          trend |-> calculateTrend(previous)]
    ELSE NoComparison

\* analysisSchema.post('save'): $inc stats.totalAnalyses.  The hook is async and
\* save() resolves after it, so the handler reads the user with the increment applied.
postSave(st) == [st EXCEPT !.totalAnalyses = st.totalAnalyses + 1]

\* userSchema.methods.updateStats
updateStats(st, analysisScore) ==
    LET total == st.totalAnalyses + 1
        avg == st.averageScore
    IN [totalAnalyses |-> total,
        averageScore |-> Rat(avg.n * (total - 1) + analysisScore * avg.d, avg.d * total),
        bestScore |-> IF analysisScore > st.bestScore THEN analysisScore ELSE st.bestScore]

\* mongoose casts comparison.improvement to Number: NaN does not cast and save() rejects
Saves(doc) == ~(doc.comparison.present /\ doc.comparison.improvement = NaN)

ScoresOf(docs) == [i \in 1..Len(docs) |-> docs[i].results.overallScore]

RECURSIVE OfUser(_, _)
\* { $match: { userId } }
OfUser(docs, userId) ==
    IF docs = <<>> THEN <<>>
    ELSE IF Head(docs).userId = userId
         THEN <<Head(docs)>> \o OfUser(Tail(docs), userId)
         ELSE OfUser(Tail(docs), userId)

RECURSIVE Sum(_)
Sum(s) == IF s = <<>> THEN 0 ELSE Head(s) + Sum(Tail(s))

\* the $group stage of GET /api/analysis: $sum: 1 and $avg of results.overallScore
\* over the user's analyses (no group, hence 0 in the response, when there are none)
aggregateStats(docs, userId) ==
    LET scores == ScoresOf(OfUser(docs, userId)) IN
    [totalAnalyses |-> Len(scores),
     averageScore |-> IF scores = <<>> THEN Rat(0, 1) ELSE Rat(Sum(scores), Len(scores))]

SumPosts == nposts["u1"] + nposts["u2"]

\* Math.round(x * 100) / 100 for x = a / b with b > 0, in hundredths
RoundHundredths(a, b) == Num((200 * a + b) \div (2 * b))

NoStatsComparison ==
    [present |-> FALSE, current |-> Num(0), previous |-> Num(0), improvement |-> Num(0),
     trend |-> "", periodCurrent |-> 0, periodPrevious |-> 0]

NoResponse ==
    [kind |-> "", userId |-> "", shotTypeStats |-> <<>>, overallTrend |-> "",
     totalAnalyses |-> 0, comparison |-> NoStatsComparison]

\* the first n elements: .limit(n), .slice(0, n)
Limit(s, n) == IF Len(s) <= n THEN s ELSE SubSeq(s, 1, n)

\* the lists without repetition of all the elements of S
Orderings(S) ==
    {q \in [1..Cardinality(S) -> S] : \A i, j \in 1..Cardinality(S) : q[i] = q[j] => i = j}

RECURSIVE Max(_)
Max(s) == IF Len(s) = 1 THEN s[1]
          ELSE IF s[1] > Max(Tail(s)) THEN s[1] ELSE Max(Tail(s))

\* the row of the $group and $project stages for one shot type: count ($sum: 1)
\* and bestScore ($max) of the user's analyses of that shot type
shotTypeRow(docs, userId, shotType) ==
    [shotType |-> shotType,
     count |-> Len(Matching(docs, userId, shotType)),
     bestScore |-> Max(ScoresOf(Matching(docs, userId, shotType)))]

\* Analysis.aggregate([{ $match: { userId } }, { $group: { _id: '$shotType', ... } },
\* { $project: ... }]): one document per group; the pipeline has no $sort stage and
\* $group gives its documents in no specified order, so every order is possible
shotTypeStats(docs, userId) ==
    LET groups == {docs[i].shotType : i \in {k \in 1..Len(docs) : docs[k].userId = userId}}
    IN {[i \in 1..Cardinality(groups) |-> shotTypeRow(docs, userId, order[i])] :
            order \in Orderings(groups)}

\* the trend over Analysis.find({ userId }).sort({ createdAt: -1 }).limit(10)
overallTrend(recentAnalyses) ==
    IF Len(recentAnalyses) >= 3
    THEN LET firstScore == recentAnalyses[Len(recentAnalyses)].results.overallScore
             lastScore == recentAnalyses[1].results.overallScore
         IN IF lastScore > firstScore + 5 THEN "improving"
            ELSE IF lastScore < firstScore - 5 THEN "declining"
            ELSE "stable"
    ELSE "stable"

\* the response of GET /api/analysis/stats/summary and of GET /api/stats/overview
statsResponse(kind, userId, rows) ==
    LET recentAnalyses == Limit(Reverse(OfUser(analyses, userId)), 10) IN
    [NoResponse EXCEPT !.kind = kind, !.userId = userId, !.shotTypeStats = rows,
                       !.overallTrend = overallTrend(recentAnalyses),
                       !.totalAnalyses = Len(recentAnalyses)]

\* GET /api/analysis/stats/summary
getStatsSummary ==
    \E userId \in Users :
        \E rows \in shotTypeStats(analyses, userId) :
            /\ response' = statsResponse("summary", userId, rows)
            /\ UNCHANGED <<analyses, stats, created, nposts, nchanges>>
            /\ UNCHANGED storeVars
            /\ UNCHANGED trendVars

\* GET /api/stats/overview
getStatsOverview ==
    \E userId \in Users :
        \E rows \in shotTypeStats(analyses, userId) :
            /\ response' = statsResponse("overview", userId, rows)
            /\ UNCHANGED <<analyses, stats, created, nposts, nchanges>>
            /\ UNCHANGED storeVars
            /\ UNCHANGED trendVars

\* the overallScore part of the comparison GET /api/stats/comparison computes;
\* shotType "" is a request without the shotType filter.  A sum divided by the
\* length of an empty period is 0 / 0, NaN, and so is all that is computed from it.
statsComparison(docs, userId, shotType) ==
    LET recentAnalyses ==
            Limit(Reverse(IF shotType = "" THEN OfUser(docs, userId)
                          ELSE Matching(docs, userId, shotType)), 20)
    IN
    IF Len(recentAnalyses) < 2 THEN NoStatsComparison
    ELSE LET currentPeriod == Limit(recentAnalyses, 5)
             previousPeriod == IF Len(recentAnalyses) <= 5 THEN <<>>
                               ELSE SubSeq(Limit(recentAnalyses, 10), 6,
                                           Len(Limit(recentAnalyses, 10)))
             sc == Sum(ScoresOf(currentPeriod))
             nc == Len(currentPeriod)
             sp == Sum(ScoresOf(previousPeriod))
             np == Len(previousPeriod)
             \* improvement = ((currentAvg - previousAvg) / previousAvg) * 100 = a / b
             a == (sc * np - sp * nc) * 100
             b == sp * nc
         IN [present |-> TRUE,
             current |-> RoundHundredths(sc, nc),
             previous |-> IF np = 0 THEN NaN ELSE RoundHundredths(sp, np),
             improvement |-> IF np = 0 THEN NaN
                             ELSE IF sp = 0 THEN (IF sc = 0 THEN NaN ELSE Infinity)
                             ELSE RoundHundredths(a, b),
             trend |-> IF np = 0 THEN "stable"
                       ELSE IF sp = 0 THEN (IF sc = 0 THEN "stable" ELSE "improving")
                       ELSE IF a > 5 * b THEN "improving"
                       ELSE IF a < (-5) * b THEN "declining"
                       ELSE "stable",
             periodCurrent |-> nc,
             periodPrevious |-> np]

\* GET /api/stats/comparison
getStatsComparison ==
    \E userId \in Users, shotType \in ShotTypes \cup {""} :
        /\ response' = [NoResponse EXCEPT !.kind = "comparison", !.userId = userId,
                            !.comparison = statsComparison(analyses, userId, shotType)]
        /\ UNCHANGED <<analyses, stats, created, nposts, nchanges>>
        /\ UNCHANGED storeVars
        /\ UNCHANGED trendVars

\* the sub-objects of results that carry a score
SubScores == {"posture", "timing", "followThrough", "power"}

\* createAnalysisValidation: body('results.overallScore').isInt({ min: 0, max: 100 })
createAnalysisValidation(results) ==
    "overallScore" \in DOMAIN results /\ results.overallScore \in 0..100

\* updateAnalysisValidation: the same test, optional
updateAnalysisValidation(results) ==
    "overallScore" \in DOMAIN results => results.overallScore \in 0..100

\* save() without the validators of the schema
validate_skipped(results) == TRUE

\* the validators of analysisSchema.results that save() runs: overallScore required,
\* min 0 and max 100 on overallScore and on the score of each sub-object
validate(results) ==
    /\ "overallScore" \in DOMAIN results
    /\ results.overallScore \in 0..100
    /\ \A n \in SubScores \cap DOMAIN results : results[n] \in 0..100

\* the handler of POST /api/analysis for an authenticated user; results maps
\* overallScore and the sub-objects the body names to their scores
postAnalysis_handler(userId, shotType, results) ==
    /\ SumPosts < MaxAnalyses
    /\ IF ~createAnalysisValidation(results)
       THEN /\ created' = [ok |-> FALSE,
                           doc |-> [Analysis(userId, shotType, 0, NoComparison)
                                        EXCEPT !.results = results],
                           prior |-> <<>>]
            /\ UNCHANGED <<analyses, stats, nposts>>
       ELSE LET score == results.overallScore
                doc == [Analysis(userId, shotType, score,
                                 comparison(analyses, userId, shotType, score))
                            EXCEPT !.results = results]
            IN
            IF validate(results) /\ Saves(doc)
            THEN /\ analyses' = Append(analyses, doc)
                 /\ stats' = [stats EXCEPT ![userId] = updateStats(postSave(@), score)]
                 /\ nposts' = [nposts EXCEPT ![userId] = @ + 1]
                 /\ created' = [ok |-> TRUE, doc |-> doc,
                                prior |-> ScoresOf(Matching(analyses, userId, shotType))]
            ELSE /\ created' = [ok |-> FALSE, doc |-> doc,
                                prior |-> ScoresOf(Matching(analyses, userId, shotType))]
                 /\ UNCHANGED <<analyses, stats, nposts>>
    /\ UNCHANGED nchanges
    /\ response' = NoResponse
    /\ UNCHANGED storeVars
    /\ UNCHANGED trendVars

\* POST /api/analysis with a results object that has an overallScore only
postAnalysis ==
    \E userId \in Users, shotType \in ShotTypes, score \in Scores :
        postAnalysis_handler(userId, shotType, [overallScore |-> score])

\* the handler of PUT /api/analysis/:id for the owner of analysis i, the body
\* with a results object or with other fields only
putAnalysis_handler(userId, i, hasResults, results) ==
    /\ nchanges < MaxChanges
    /\ analyses[i].userId = userId
    /\ nchanges' = nchanges + 1
    /\ IF hasResults /\ ~(updateAnalysisValidation(results) /\ validate(results))
       THEN UNCHANGED <<analyses, stats>>
       ELSE /\ analyses' = [analyses EXCEPT ![i].results = IF hasResults THEN results ELSE @]
            /\ stats' = [stats EXCEPT ![userId] = postSave(@)]
    /\ UNCHANGED <<created, nposts>>
    /\ response' = NoResponse
    /\ UNCHANGED storeVars
    /\ UNCHANGED trendVars

\* PUT /api/analysis/:id with results that have an overallScore only, or without results
putAnalysis ==
    \E userId \in Users, i \in 1..Len(analyses), score \in Scores \cup {-1} :
        putAnalysis_handler(userId, i, score # -1, [overallScore |-> score])

\* DELETE /api/analysis/:id
deleteAnalysis ==
    \E userId \in Users, i \in 1..Len(analyses) :
        /\ nchanges < MaxChanges
        /\ analyses[i].userId = userId
        /\ nchanges' = nchanges + 1
        /\ analyses' = [j \in 1..(Len(analyses) - 1) |->
                            IF j < i THEN analyses[j] ELSE analyses[j + 1]]
        /\ UNCHANGED <<stats, created, nposts>>
        /\ response' = NoResponse
        /\ UNCHANGED storeVars
        /\ UNCHANGED trendVars

\* -------------------------------------------------------- the trend functions
TrendScores == {44, 45, 50, 55, 56}

RECURSIVE ScoreLists(_)
\* the lists of at most n scores
ScoreLists(n) ==
    IF n = 0 THEN {<<>>}
    ELSE ScoreLists(n - 1) \cup
         {Append(l, x) : l \in {m \in ScoreLists(n - 1) : Len(m) = n - 1}, x \in TrendScores}

\* AppUtils.calculateImprovementTrend with >= and <= for > and <
calculateImprovementTrend_inclusive(list) ==
    IF Len(list) < 3 THEN "stable"
    ELSE LET recentScores == Last3(list)
             firstScore == recentScores[1]
             lastScore == recentScores[3]
         IN IF lastScore >= firstScore + 5 THEN "improving"
            ELSE IF lastScore <= firstScore - 5 THEN "declining"
            ELSE "stable"

\* AppUtils.calculateImprovementTrend
calculateImprovementTrend(list) ==
    IF Len(list) < 3 THEN "stable"
    ELSE LET recentScores == Last3(list)
             firstScore == recentScores[1]
             lastScore == recentScores[3]
         IN IF lastScore > firstScore + 5 THEN "improving"
            ELSE IF lastScore < firstScore - 5 THEN "declining"
            ELSE "stable"

\* the analyses of one user and shot type that have these scores, oldest first
AnalysesOf(list) ==
    [i \in 1..Len(list) |-> Analysis("u1", "derecha", list[i], NoComparison)]

\* a client calls AppUtils.calculateImprovementTrend(scores)
callCalculateImprovementTrend ==
    /\ trend.client = ""
    /\ trend' = [trend EXCEPT !.client = calculateImprovementTrend(scoreList)]
    /\ UNCHANGED <<scoreList, storeVars, analysisVars>>

\* analysis.calculateTrend(previousAnalyses) on analyses in chronological order
callCalculateTrend ==
    /\ trend.server = ""
    /\ trend' = [trend EXCEPT !.server = calculateTrend(AnalysesOf(scoreList))]
    /\ UNCHANGED <<scoreList, storeVars, analysisVars>>

InitTrendVars ==
    /\ scoreList = <<>>
    /\ trend = [client |-> "", server |-> ""]

InitAnalysisVars ==
    /\ analyses = <<>>
    /\ stats = [u \in Users |-> InitialStats]
    /\ created = [ok |-> FALSE, doc |-> Analysis("u1", "derecha", 0, NoComparison),
                  prior |-> <<>>]
    /\ nposts = [u \in Users |-> 0]
    /\ nchanges = 0
    /\ response = NoResponse

\* ------------------------------------------------------------ specification
InitStore(c) ==
    /\ platform \in {"web", "native"}
    /\ now = 0
    /\ index = <<>>
    /\ files = {}
    /\ tasks = [t \in Tasks |-> IdleTask]
    /\ conc = c
    /\ noverlaps = 0
    /\ nsaves = 0
    /\ nevents = 0
    /\ deleted = -1
    /\ dirMtime = -1
    /\ InitAnalysisVars

Init == InitStore(1) /\ InitTrendVars

Next ==
    \/ \E t \in Tasks : saveVideo(t)
    \/ \E t \in Tasks : saveVideo_copyAsync(t)
    \/ \E t \in Tasks : addVideoToIndex_updateVideosIndex(t)
    \/ \E t \in Tasks : getAllVideos(t)
    \/ \E t \in Tasks : getAllVideos_getItem(t)
    \/ \E t \in Tasks : getAllVideos_getInfoAsync(t)
    \/ \E t \in Tasks : getAllVideos_updateVideosIndex(t)
    \/ \E t \in Tasks : deleteVideo(t)
    \/ \E t \in Tasks : deleteVideo_getInfoAsync(t)
    \/ \E t \in Tasks : deleteVideo_deleteAsync(t)
    \/ \E t \in Tasks : deleteVideo_updateVideosIndex(t)
    \/ \E t \in Tasks : cleanupOldVideos(t)
    \/ externalRemove

\* One call at a time.
Spec == Init /\ [][Next]_vars

\* The caller lets two calls overlap.
InitOverlap == InitStore(2) /\ InitTrendVars
SpecOverlap == InitOverlap /\ [][Next]_vars

\* The store with the cleanup of the camera screen, one call at a time.
NextRecording ==
    \/ \E t \in Tasks : saveVideo(t)
    \/ \E t \in Tasks : saveVideo_copyAsync(t)
    \/ \E t \in Tasks : addVideoToIndex_updateVideosIndex(t)
    \/ \E t \in Tasks : getAllVideos(t)
    \/ \E t \in Tasks : getAllVideos_getItem(t)
    \/ \E t \in Tasks : getAllVideos_getInfoAsync(t)
    \/ \E t \in Tasks : getAllVideos_updateVideosIndex(t)
    \/ \E t \in Tasks : deleteVideo(t)
    \/ \E t \in Tasks : deleteVideo_getInfoAsync(t)
    \/ \E t \in Tasks : deleteVideo_deleteAsync(t)
    \/ \E t \in Tasks : deleteVideo_updateVideosIndex(t)
    \/ \E t \in Tasks : cleanupOldVideos(t)
    \/ CameraValidationUtils_cleanupOldVideos

SpecRecording == Init /\ [][NextRecording]_vars

\* The backend: requests are handled one at a time.
InitAnalysis ==
    /\ InitStore(1)
    /\ platform = "native"
    /\ InitTrendVars

NextAnalysis ==
    \/ postAnalysis
    \/ putAnalysis
    \/ deleteAnalysis

SpecAnalysis == InitAnalysis /\ [][NextAnalysis]_vars

\* Creations only.
NextCreate == postAnalysis

SpecCreate == InitAnalysis /\ [][NextCreate]_vars

\* The statistics routes, after creations and deletions.
StatsScores == {0, 70}

postStats ==
    \E userId \in Users, shotType \in ShotTypes, score \in StatsScores :
        postAnalysis_handler(userId, shotType, [overallScore |-> score])

NextStats ==
    \/ postStats
    \/ deleteAnalysis
    \/ getStatsSummary
    \/ getStatsOverview
    \/ getStatsComparison

SpecStats == InitAnalysis /\ [][NextStats]_vars

\* The results objects one user sends: an overallScore at and beyond each limit,
\* an overallScore with a sub-score at or beyond a limit, a sub-score alone.
ResultsInputs ==
    {[overallScore |-> o] : o \in {-1, 0, 100, 101}}
        \cup {[overallScore |-> 100, posture |-> -1],
              [overallScore |-> 100, timing |-> 101],
              [overallScore |-> 100, followThrough |-> 100],
              [overallScore |-> 100, power |-> 0],
              [posture |-> 100]}

postResults ==
    \E results \in ResultsInputs : postAnalysis_handler("u1", "derecha", results)

putResults ==
    \E i \in 1..Len(analyses), results \in ResultsInputs :
        putAnalysis_handler("u1", i, TRUE, results)

NextResults ==
    \/ postResults
    \/ putResults

SpecResults == InitAnalysis /\ [][NextResults]_vars

\* The trend functions applied to every list of at most MaxScores scores.
InitTrend ==
    /\ InitStore(1)
    /\ platform = "native"
    /\ scoreList \in ScoreLists(MaxScores)
    /\ trend = [client |-> "", server |-> ""]

NextTrend ==
    \/ callCalculateImprovementTrend
    \/ callCalculateTrend

SpecTrend == InitTrend /\ [][NextTrend]_vars

\* =============================================================== properties
Finished(t, op) == tasks[t].op = op /\ tasks[t].pc = "done"
Ids(videos) == {v.id : v \in Range(videos)}

\* C1: when copyAsync fails inside saveVideo, saveVideo throws and the
\* persisted index is exactly what it was when the call started.
C1_CopyFailureLeavesIndex ==
    \A t \in Tasks :
        (tasks[t].op = "save" /\ tasks[t].io = "copyAsync") =>
            /\ tasks[t].pc = "done"
            /\ tasks[t].res = "threw"
            /\ index = tasks[t].idx0

\* A saveVideo whose copy failed while the index already held an entry.
C1_Witness ==
    \E t \in Tasks :
        /\ Finished(t, "save")
        /\ tasks[t].io = "copyAsync"
        /\ tasks[t].idx0 # <<>>

\* C2: a sweep interleaved with a saveVideo does not lose the saved entry:
\* once both have completed, the persisted index holds the entry the save
\* returned (unless the sweep had picked that very id as expired, or the
\* entry's file is gone).
C2_SweepKeepsSavedEntry ==
    \A s \in Tasks, c \in Tasks :
        ( /\ Finished(s, "save") /\ tasks[s].res = "ok" /\ tasks[s].io = ""
          /\ Finished(c, "cleanup") /\ tasks[c].io = ""
          /\ tasks[s].video.id \notin Ids(tasks[c].ctargets)
          /\ (platform = "native" => FileExists(tasks[s].video.uri, files)) )
        => tasks[s].video \in Range(index)

ListedFilesExisted(t) ==
    /\ \A v \in Range(tasks[t].retList) : FileExists(v.uri, tasks[t].gfiles0)
    /\ \A shotType \in ShotTypes :
          \A v \in Range(getVideosByShotType(tasks[t].retList, shotType)) :
              FileExists(v.uri, tasks[t].gfiles0)
    /\ getStorageStats(tasks[t].retList).totalVideos
          <= Cardinality({i \in 1..Len(tasks[t].idx0) :
                             FileExists(tasks[t].idx0[i].uri, tasks[t].gfiles0)})

CreatedAfter == created.ok /\ created.prior # <<>>

PreviousScore == created.prior[Len(created.prior)]

\* C4: when an analysis is created and the previous analysis of the same user
\* and shot type has overallScore 0, the improvement of the attached comparison
\* is 0, never Infinity or NaN.
C4_ImprovementZeroAfterZeroScore ==
    (CreatedAfter /\ PreviousScore = 0) =>
        /\ created.doc.comparison.present
        /\ created.doc.comparison.improvement = Num(0)

\* the 3-sample trend over a chronological history
Trend3(history) ==
    IF Len(history) < 3 THEN "stable"
    ELSE LET d == history[Len(history)] - history[Len(history) - 2] IN
         IF d > 5 THEN "improving" ELSE IF d < -5 THEN "declining" ELSE "stable"

\* C5: the trend stored in the comparison of a newly created analysis is the
\* 3-sample trend over the chronological history of that user and shot type
\* ending in the previous and the current score.
C5_TrendOverHistory ==
    CreatedAfter =>
        created.doc.comparison.trend =
            Trend3(Append(created.prior, created.doc.results.overallScore))

\* only user u has acted, and only by creating analyses
OnlyCreations(u) == nchanges = 0 /\ nposts[u] > 0 /\ SumPosts = nposts[u]

\* C6: after n successful creations by one user and no other operation, the
\* user's stats.totalAnalyses equals n.
C6_TotalCountsCreations ==
    \A u \in Users : OnlyCreations(u) => stats[u].totalAnalyses = nposts[u]

\* C7: after any sequence of successful creations by one user, stats.averageScore
\* equals the mean of overallScore over that user's analyses, as the aggregation
\* of GET /api/analysis computes it.
C7_AverageIsMeanOfHistory ==
    \A u \in Users :
        OnlyCreations(u) => stats[u].averageScore = aggregateStats(analyses, u).averageScore

\* C8: in cleanupOldVideos a failure deleting one expired entry does not
\* abort the sweep: every other expired entry is gone from the index, and
\* its file from the device, when the call returns.
C8_SweepContinuesAfterFailure ==
    \A t \in Tasks :
        (Finished(t, "cleanup") /\ tasks[t].derr # -1) =>
            \A v \in Range(tasks[t].ctargets) :
                v.id # tasks[t].derr =>
                    /\ v \notin Range(index)
                    /\ platform = "native" => ~FileExists(v.uri, files)

\* C9: deleteVideo(id) for an indexed entry whose file has already
\* disappeared completes without error and leaves no entry with that id.
C9_DeleteOfVanishedFileSucceeds ==
    \A t \in Tasks :
        (Finished(t, "delete") /\ tasks[t].dgone /\ tasks[t].io = "") =>
            /\ tasks[t].res = "ok"
            /\ tasks[t].did \notin Ids(index)

\* C10: a second deleteVideo(id) right after a successful one completes
\* without error and leaves the index as the first call left it.
C10_SecondDeleteSucceeds ==
    \A t \in Tasks :
        (Finished(t, "delete") /\ tasks[t].again /\ tasks[t].io = "") =>
            /\ tasks[t].res = "ok"
            /\ index = tasks[t].idx0

\* C11: cleanupOldVideos run twice in a row with the same maxAgeDays and no
\* saveVideo in between returns 0 the second time.  Stated for the runs in
\* which no I/O call of either run failed and the second run read the clock
\* value the first had read, so that no entry aged past the limit in between.
C11_SecondSweepReturnsZero ==
    \A t \in Tasks :
        ( /\ Finished(t, "cleanup") /\ tasks[t].again
          /\ tasks[t].pio = "" /\ tasks[t].io = ""
          /\ now = tasks[t].now0 )
        => tasks[t].retNum = 0

\* an entry is older than maxAgeDays at the clock reading nowMs
Expired(v, nowMs, maxAgeDays) == (nowMs - v.timestamp) > maxAgeDays * MsPerDay

\* a cleanupOldVideos that ran to the end of its loop: no I/O call failed,
\* no deleteVideo threw
SweptThrough(t) ==
    Finished(t, "cleanup") /\ tasks[t].io = "" /\ tasks[t].derr = -1

\* C12: cleanupOldVideos(maxAgeDays) removes exactly the entries older than
\* maxAgeDays days: when it returns, no entry of the index it started on that
\* was older than that at its clock reading is left, and every other entry of
\* that index is still there (on a device: if its file is).
C12_SweepRemovesExactlyExpired ==
    \A t \in Tasks :
        SweptThrough(t) =>
            \A v \in Range(tasks[t].idx0) :
                IF Expired(v, now, tasks[t].age)
                THEN v \notin Range(index)
                ELSE (isWeb \/ FileExists(v.uri, files)) => v \in Range(index)

\* C13: over a chronologically ordered list of scores the trend function is
\* stable for fewer than 3 scores; otherwise, over the last 3, improving if
\* last - first > 5, declining if last - first < -5, stable in every other
\* case (so at exactly +5 and -5).
C13_TrendOfLastThree ==
    /\ trend.client # "" => trend.client = Trend3(scoreList)
    /\ trend.server # "" => trend.server = Trend3(scoreList)

\* Both functions were applied to a list of more than 3 scores whose last
\* score is exactly 5 above the third from last.
C13_Witness ==
    /\ trend.client = "stable" /\ trend.server = "stable"
    /\ Len(scoreList) > 3
    /\ scoreList[Len(scoreList)] - scoreList[Len(scoreList) - 2] = 5

\* C14: when the persisted index cannot be read or parsed (getItem or
\* JSON.parse throws), getAllVideos surfaces the failure to its caller as an
\* error; it does not return a list.
C14_UnreadableIndexIsAnError ==
    \A t \in Tasks :
        (Finished(t, "list") /\ tasks[t].io = "getItem") => tasks[t].res = "threw"

\* a getAllVideos made right after a saveVideo returned a StoredVideo, with
\* no I/O failure of its own and (on a device) the saved file in place
ListedAfterSave(t) ==
    /\ Finished(t, "list") /\ tasks[t].psaved # NoVideo /\ tasks[t].io = ""
    /\ isWeb \/ FileExists(tasks[t].psaved.uri, files)

\* C15: once saveVideo has returned a StoredVideo, a getAllVideos made
\* immediately afterwards contains that entry; when the save started from an
\* empty index it contains exactly that entry and getStorageStats counts 1.
C15_ListSeesSavedEntry ==
    \A t \in Tasks :
        ListedAfterSave(t) =>
            /\ tasks[t].psaved \in Range(tasks[t].retList)
            /\ tasks[t].pfirst =>
                   /\ tasks[t].retList = <<tasks[t].psaved>>
                   /\ getStorageStats(tasks[t].retList).totalVideos = 1

\* On a device, the first save into an empty index, then the listing.
C15_Witness ==
    \E t \in Tasks :
        /\ ListedAfterSave(t) /\ tasks[t].pfirst
        /\ platform = "native"
        /\ tasks[t].retList = <<tasks[t].psaved>>

\* C16: every saveVideo generates a fresh id: no two entries of the index
\* have the same id, whatever the clock read when they were saved.
C16_IdsAreUnique ==
    \A i, j \in 1..Len(index) : index[i].id = index[j].id => i = j

\* newest first
Descending(videos) ==
    \A i, j \in 1..Len(videos) : i < j => videos[i].timestamp >= videos[j].timestamp

\* C17: getAllVideos, and getVideosByShotType for any shot type, return their
\* entries ordered by timestamp descending, whatever the order in the index.
C17_ListedNewestFirst ==
    \A t \in Tasks :
        Finished(t, "list") =>
            /\ Descending(tasks[t].retList)
            /\ \A shotType \in ShotTypes :
                   Descending(getVideosByShotType(tasks[t].retList, shotType))

\* a getAllVideos on a device that went through its loop with no I/O failure
Reconciled(t) == Finished(t, "list") /\ platform = "native" /\ tasks[t].io = ""

\* C18: when getAllVideos finds an index entry whose file no longer exists, it
\* drops the entry from its result and from the persisted index: after the
\* call the index holds only entries whose file existed during the call, the
\* ones the call returned.
C18_MissingFilesLeaveIndex ==
    \A t \in Tasks :
        Reconciled(t) =>
            /\ \A v \in Range(tasks[t].idx0) :
                   ~FileExists(v.uri, tasks[t].gfiles0) =>
                       v \notin Range(tasks[t].retList) /\ v \notin Range(index)
            /\ \A v \in Range(index) : FileExists(v.uri, tasks[t].gfiles0)
            /\ Range(index) = Range(tasks[t].retList)

\* getAllVideos rewrote the index without an entry and kept another.
C18_Witness ==
    \E t \in Tasks :
        /\ Reconciled(t)
        /\ index # <<>>
        /\ index # tasks[t].idx0
        /\ \E v \in Range(tasks[t].idx0) : ~FileExists(v.uri, tasks[t].gfiles0)

\* C19: score records are append-only: no step changes the results or the
\* comparison of an analysis that exists, or removes it from the history.
C19_RecordsAppendOnly ==
    [][\A i \in 1..Len(analyses) :
           /\ i <= Len(analyses')
           /\ analyses'[i] = analyses[i]]_vars

\* a deleteVideo on a device that found the entry it was asked to delete
DeleteFound(t) ==
    Finished(t, "delete") /\ platform = "native" /\ tasks[t].dfound # NoVideo

C21_PreviousScoreAndImprovement ==
    CreatedAfter =>
        LET cur == created.doc.results.overallScore
            imp == created.doc.comparison.improvement
            err == imp.h * PreviousScore - (cur - PreviousScore) * 10000
        IN /\ created.doc.comparison.present
           /\ created.doc.comparison.previousScore = PreviousScore
           /\ PreviousScore # 0 =>
                  /\ imp.kind = "num"
                  /\ 2 * (IF err < 0 THEN -err ELSE err) <= PreviousScore

\* an analysis scored 81 created after two earlier ones, the older scored
\* otherwise than the newer one's 70: improvement 15.71
C21_Witness ==
    /\ CreatedAfter
    /\ Len(created.prior) >= 2
    /\ created.prior[1] # PreviousScore
    /\ PreviousScore = 70
    /\ created.doc.results.overallScore = 81
    /\ created.doc.comparison.improvement = Num(1571)

\* C22: after any sequence of creations and updates every stored analysis has
\* an overallScore within 0..100, and every sub-score (posture, timing,
\* followThrough, power) it has is within 0..100.
C22_StoredScoresInRange ==
    \A i \in 1..Len(analyses) :
        /\ "overallScore" \in DOMAIN analyses[i].results
        /\ analyses[i].results.overallScore \in 0..100
        /\ \A n \in SubScores \cap DOMAIN analyses[i].results :
               analyses[i].results[n] \in 0..100

\* an update that followed two creations has stored sub-scores, one of them in
\* the older record, after a creation with a score beyond the limit was refused
C22_Witness ==
    /\ Len(analyses) = 2
    /\ nchanges = 1
    /\ "power" \in DOMAIN analyses[1].results
    /\ "followThrough" \in DOMAIN analyses[2].results
    /\ ~created.ok
    /\ "timing" \in DOMAIN created.doc.results
    /\ created.doc.results.timing = 101

\* the shot types the user of the last statistics response has an analysis of
RespondedTypes ==
    {analyses[i].shotType : i \in {k \in 1..Len(analyses) : analyses[k].userId = response.userId}}

\* alphabetical order of the shot types
Before(a, b) == a = "derecha" /\ b = "reves"

\* the rows of the last summary or overview: one for each shot type the user has
\* an analysis of, and no other
RowsPerShotType ==
    response.kind \in {"summary", "overview"} =>
        /\ Len(response.shotTypeStats) = Cardinality(RespondedTypes)
        /\ {response.shotTypeStats[i].shotType : i \in 1..Len(response.shotTypeStats)}
               = RespondedTypes

\* C24: the shot-type rows of GET /api/analysis/stats/summary and of GET
\* /api/stats/overview are exactly one row for each shot type the user has an
\* analysis of, no row for another shot type, sorted by shot type.
C24_SummaryRowsSortedPerShotType ==
    /\ RowsPerShotType
    /\ response.kind \in {"summary", "overview"} =>
           \A i, j \in 1..Len(response.shotTypeStats) :
               i < j => Before(response.shotTypeStats[i].shotType,
                               response.shotTypeStats[j].shotType)

Finite(x) == x.kind = "num"

\* C25: whenever GET /api/stats/comparison returns a comparison, its current
\* average, previous average and improvement are finite numbers.
C25_ComparisonIsFinite ==
    (response.kind = "comparison" /\ response.comparison.present) =>
        /\ Finite(response.comparison.current)
        /\ Finite(response.comparison.previous)
        /\ Finite(response.comparison.improvement)

\* the entries of videosToDelete the finished cleanupOldVideos t has deleted: gone
\* from the index and, on a device, the file gone too
SweepDeleted(t) ==
    {i \in 1..Len(tasks[t].ctargets) :
        /\ tasks[t].ctargets[i] \notin Range(index)
        /\ platform = "native" => ~FileExists(tasks[t].ctargets[i].uri, files)}

\* videosToDelete of cleanupOldVideos t had no two entries with one id
DistinctTargets(t) ==
    \A i, j \in 1..Len(tasks[t].ctargets) :
        tasks[t].ctargets[i].id = tasks[t].ctargets[j].id => i = j

\* C26: the number cleanupOldVideos returns is the number of entries that run
\* deleted, also when the deletion of some expired entry failed part-way
\* (stated for runs over entries with distinct ids).
C26_SweepReturnsDeletedCount ==
    \A t \in Tasks :
        (Finished(t, "cleanup") /\ DistinctTargets(t)) =>
            tasks[t].retNum = Cardinality(SweepDeleted(t))

\* a saveVideo is copying to uri: its copyAsync has not completed
CopyInProgress(uri) ==
    \E t \in Tasks :
        tasks[t].op = "save" /\ tasks[t].pc = "copy" /\ tasks[t].video.uri = uri

\* C23: in every reachable state, also while the copy of a saveVideo is in
\* progress or has failed, or the call overlaps another saveVideo, no entry of
\* the persisted index points at a file whose copy has not completed.
C23_NoEntryForUnfinishedCopy ==
    \A i \in 1..Len(index) : ~CopyInProgress(index[i].uri)

\* saveVideo t returned its entry, no I/O call of it having failed, and the
\* entry's file is still there
SavedAndKept(t) ==
    /\ Finished(t, "save") /\ tasks[t].res = "ok" /\ tasks[t].io = ""
    /\ platform = "native" => FileExists(tasks[t].video.uri, files)

\* C27: when two saveVideo calls overlap and both return successfully, the
\* persisted index afterwards contains both new entries.
C27_OverlappingSavesKeepBoth ==
    \A s \in Tasks, t \in Tasks :
        (s # t /\ SavedAndKept(s) /\ SavedAndKept(t) /\ tasks[s].video.id # tasks[t].video.id)
            => /\ tasks[s].video \in Range(index)
               /\ tasks[t].video \in Range(index)

\* C28: a saveVideo that returns successfully removes no entry whose file still
\* exists: every entry the index held when the call started, and whose file is
\* there, is in the index after the call, next to the new entry; also when
\* reading the index or looking up a file failed during the call.
C28_SaveKeepsExistingEntries ==
    \A t \in Tasks :
        (Finished(t, "save") /\ tasks[t].res = "ok") =>
            /\ tasks[t].video \in Range(index)
            /\ \A v \in Range(tasks[t].idx0) :
                   (isWeb \/ FileExists(v.uri, files)) => v \in Range(index)

\* C29: the cleanup the camera screen launches at the start of a recording never
\* removes the backing file of a video that is in the index: a step that makes
\* the file of an indexed video disappear is the deleteAsync of a deleteVideo
\* for that video.
C29_OnlyDeleteVideoRemovesIndexedFiles ==
    [][\A v \in Range(index) :
          (FileExists(v.uri, files) /\ ~FileExists(v.uri, files')) =>
              \E t \in Tasks : /\ tasks[t].op = "delete" /\ tasks[t].pc = "del_file"
                               /\ tasks[t].dtarget.uri = v.uri]_vars

\* C30: a PUT /api/analysis/:id (a request that changes no record count) leaves
\* stats.totalAnalyses of every user, the owner included, as it was.
C30_UpdateKeepsTotalAnalyses ==
    [][(nchanges' = nchanges + 1 /\ Len(analyses') = Len(analyses)) =>
          \A u \in Users : stats'[u].totalAnalyses = stats[u].totalAnalyses]_vars

====
